---------------------------- MODULE Spec2Model ----------------------------
(***************************************************************************)
(* gitmon (src/src/main.rs): the incremental commit-tracking core.         *)
(*                                                                         *)
(* A mirror's history is a linear chain of commits.  Commit k of a mirror  *)
(* is the k-th commit of the chain (1 = root, Len(hist) = HEAD), its       *)
(* parent is commit k-1, and hist[k] is its commit time.  The identifier   *)
(* of commit k is the number k; NoId (0) stands for Option::None.          *)
(* Commit times need not grow along the chain (clocks of committers        *)
(* differ) and may be equal: the walker sorts by commit time               *)
(* (git2::Sort::TIME, main.rs:118), so the order in which it yields the    *)
(* commits is decided by hist and by libgit2's priority queue, not by the  *)
(* chain.  TooEarly and TooLate are times below and above the range chrono *)
(* can represent.                                                          *)
(***************************************************************************)
EXTENDS Integers, Sequences, FiniteSets, TLC

\* ------------------------------------------------------------------ bounds
MaxCommits == 3      \* commits over all mirrors together
MaxCap     == 1      \* config.max_commits is None or 0..MaxCap
MaxTime    == 2      \* the commit times chrono can represent are 1..MaxTime

\* --------------------------------------------------------------- constants
NoId  == 0           \* Option<&str>::None for a commit identifier
NoCap == -1          \* Option<usize>::None for max_commits

Urls     == {"A", "B"}
UrlOrder == <<"A", "B">>          \* the String order a BTreeMap iterates in
TooEarly == 0                      \* a commit time below chrono's range
TooLate  == MaxTime + 1            \* a commit time above chrono's range
Times    == TooEarly..TooLate
\* DateTime::from_timestamp(t, 0) is Some
from_timestamp(t) == t \in 1..MaxTime
\* config.repos: nothing, one repository, one twice, two
RepoLists == {<<>>, <<"A">>, <<"B">>, <<"A", "A">>, <<"B", "B">>,
              <<"A", "B">>, <<"B", "A">>}
Ids      == 1..MaxCommits
Caps     == {NoCap} \cup (0..MaxCap)

Range(s) == {s[k] : k \in DOMAIN s}
Min(a, b) == IF a < b THEN a ELSE b

\* histories: sequences of commit times; commits may share a time
IsHistory(h) == \A k \in DOMAIN h : h[k] \in Times
Histories(n) ==
    {h \in UNION {[1..m -> Times] : m \in 0..n} : IsHistory(h)}
\* what a fast-forward can turn history h into (h itself when nothing is new)
Extensions(h, n) ==
    {g \in Histories(n) : Len(g) >= Len(h) /\ \A k \in DOMAIN h : g[k] = h[k]}

\* commit a is an ancestor of commit b (a # b) in a linear chain
IsAncestor(a, b) == a < b

\* -------------------------------------------------------- watermark store
EmptyMap == [u \in {} |-> NoId]
Get(m, u) == IF u \in DOMAIN m THEN m[u] ELSE NoId
Insert(m, u, v) == [w \in (DOMAIN m) \cup {u} |-> IF w = u THEN v ELSE m[w]]

RECURSIVE to_string_pretty_from(_, _)
to_string_pretty_from(m, k) ==
    IF k > Len(UrlOrder) THEN <<>>
    ELSE IF UrlOrder[k] \in DOMAIN m
         THEN <<  <<UrlOrder[k], m[UrlOrder[k]]>>  >> \o to_string_pretty_from(m, k + 1)
         ELSE to_string_pretty_from(m, k + 1)
\* the text of {"last_seen": {...}}: one key/value entry per key, in key order
to_string_pretty(m) == to_string_pretty_from(m, 1)

\* mutant: every entry read starts the map anew, so only the last one is kept
from_str_last(text) ==
    IF text = <<>> THEN EmptyMap
    ELSE Insert(EmptyMap, text[Len(text)][1], text[Len(text)][2])

RECURSIVE from_str_into(_, _)
from_str_into(text, m) ==
    IF text = <<>> THEN m
    ELSE from_str_into(Tail(text), Insert(m, Head(text)[1], Head(text)[2]))
from_str(text) == from_str_into(text, EmptyMap)

MissingFile == [kind |-> "missing", text |-> <<>>]
\* load_state: a missing file, a failed read and a failed parse give State::default()
load_state(f) ==
    IF f.kind = "json" THEN from_str(f.text) ELSE EmptyMap

\* what fs::write (main.rs:67) can do: write the text; fail to open the
\* file, which stays as it was; or fail after the open has truncated it,
\* which leaves an empty or partial text that does not parse
Writes == {"ok", "refused", "cut"}

\* save_state: the outcome of fs::write is ignored (.ok())
save_state(m, f, write) ==
    IF write = "ok" THEN [kind |-> "json", text |-> to_string_pretty(m)]
    ELSE IF write = "cut" THEN [kind |-> "corrupt", text |-> <<>>]
    ELSE f

\* ---------------------------------------------------------- history walker
\* libgit2's priority queue of the revwalk (a binary heap kept in a vector,
\* here with positions 1..Len): the commit with the latest time is at
\* position 1, and commits of equal time are never exchanged.
Swap(pq, i, j) == [pq EXCEPT ![i] = pq[j], ![j] = pq[i]]

RECURSIVE pqueue_up(_, _, _)
pqueue_up(h, pq, el) ==
    IF el = 1 \/ h[pq[el \div 2]] >= h[pq[el]] THEN pq
    ELSE pqueue_up(h, Swap(pq, el, el \div 2), el \div 2)

RECURSIVE pqueue_down(_, _, _)
pqueue_down(h, pq, el) ==
    IF 2 * el > Len(pq) THEN pq
    ELSE LET kid == IF 2 * el + 1 <= Len(pq) /\ h[pq[2 * el]] < h[pq[2 * el + 1]]
                    THEN 2 * el + 1 ELSE 2 * el
         IN  IF h[pq[el]] >= h[pq[kid]] THEN pq
             ELSE pqueue_down(h, Swap(pq, el, kid), kid)

pqueue_insert(h, pq, c) == pqueue_up(h, Append(pq, c), Len(pq) + 1)

\* the queue after git_pqueue_pop took pq[1]: the last entry moves to the top
pqueue_pop(h, pq) ==
    IF Len(pq) <= 1 THEN <<>>
    ELSE pqueue_down(h, [k \in 1..(Len(pq) - 1) |->
                            IF k = 1 THEN pq[Len(pq)] ELSE pq[k]], 1)

\* the commits reachable from HEAD enter the queue from HEAD down to the root
RECURSIVE Enqueue(_, _, _)
Enqueue(h, pq, c) ==
    IF c = 0 THEN pq ELSE Enqueue(h, pqueue_insert(h, pq, c), c - 1)

RECURSIVE Drain(_, _)
Drain(h, pq) ==
    IF pq = <<>> THEN <<>> ELSE <<pq[1]>> \o Drain(h, pqueue_pop(h, pq))

\* revwalk.push_head(); revwalk.set_sorting(Sort::TIME): every commit reachable
\* from HEAD, latest commit time first
Revwalk(h) == Drain(h, Enqueue(h, <<>>, Len(h)))

\* the result of a walk: Ok(commits), Err, or a panic that ends the process
WalkOk(commits) == [ok |-> TRUE, commits |-> commits, panic |-> FALSE]
WalkErr   == [ok |-> FALSE, commits |-> <<>>, panic |-> FALSE]
WalkPanic == [ok |-> FALSE, commits |-> <<>>, panic |-> TRUE]

\* mutant: the walk does not stop at last_seen
RECURSIVE WalkLoopNoStop(_, _, _, _, _)
WalkLoopNoStop(h, order, last_seen, max_commits, commits) ==
    IF order = <<>> THEN WalkOk(commits)
    ELSE IF max_commits # NoCap /\ Len(commits) >= max_commits THEN WalkOk(commits)
    ELSE IF ~from_timestamp(h[Head(order)]) THEN WalkPanic
    ELSE WalkLoopNoStop(h, Tail(order), last_seen, max_commits,
                        Append(commits, Head(order)))

\* main.rs:120-158: the cap, then the watermark, then the date of the commit
\* (from_timestamp(..).unwrap() panics on a time out of range), then the push
RECURSIVE WalkLoop(_, _, _, _, _)
WalkLoop(h, order, last_seen, max_commits, commits) ==
    IF order = <<>> THEN WalkOk(commits)
    ELSE IF max_commits # NoCap /\ Len(commits) >= max_commits THEN WalkOk(commits)
    ELSE IF Head(order) = last_seen THEN WalkOk(commits)
    ELSE IF ~from_timestamp(h[Head(order)]) THEN WalkPanic
    ELSE WalkLoop(h, Tail(order), last_seen, max_commits,
                  Append(commits, Head(order)))

\* get_new_commits_since: Err when HEAD cannot be read (an empty repository has
\* no HEAD commit, or the mirror is unreadable), else the outcome of the loop
get_new_commits_since(h, readable, last_seen, max_commits) ==
    IF h = <<>> \/ ~readable
    THEN WalkErr
    ELSE WalkLoop(h, Revwalk(h), last_seen, max_commits, <<>>)

\* ---------------------------------------------------------------- renderer
\* config.template_path: None, a file that cannot be read, or a template
\* with no, one or two occurrences of {{tables}}
Templates == {"none", "unreadable", "no_tables", "tables", "tables_twice"}

\* how often the tables are in the page: once in the built-in page, else
\* once per occurrence of {{tables}} (str::replace, main.rs:219-228)
Copies(template) ==
    IF template = "no_tables" THEN 0
    ELSE IF template = "tables_twice" THEN 2
    ELSE 1

\* build_html_report_with_template: one section per repository with commits
build_html_report(repo_commits, template) ==
    [copies |-> Copies(template),
     sections |-> IF Copies(template) = 0 THEN {}
                  ELSE {[repo |-> u, rows |-> repo_commits[u]] :
                          u \in {v \in DOMAIN repo_commits : repo_commits[v] # <<>>}}]

\* ---------------------------------------------------------- link derivation
\* A repository URL is a sequence of pieces: a scheme, a host, a separator,
\* one path segment and any number of trailing ".git".  No searched text
\* ("github.com", "://", "/", ".git", "http") straddles two pieces.
Schemes  == {"https://", "http://", "ssh://", "git@"}
Hosts    == {"github.com", "gitlab.com", "bitbucket.org", "gerrit.example.org",
             "example.org"}
Segments == {"repo", "github.com", "gerrit"}
MaxDotGit == 2       \* how many times a URL may end in ".git"
ChangeIds == {"none", "I1"}        \* CommitInfo.change_id: None or Some

RECURSIVE DotGits(_)
DotGits(n) == IF n = 0 THEN <<>> ELSE <<".git">> \o DotGits(n - 1)

RepoUrls ==
    {<<s, h, IF s = "git@" THEN ":" ELSE "/", p>> \o DotGits(n) :
        s \in Schemes, h \in Hosts, p \in Segments, n \in 0..MaxDotGit}

\* str::contains for the three host names and for "gerrit"
contains(url, needle) ==
    \E k \in DOMAIN url :
        \/ url[k] = needle
        \/ needle = "gerrit" /\ url[k] = "gerrit.example.org"

\* str::starts_with("http")
starts_with_http(s) == s # <<>> /\ s[1] \in {"https://", "http://"}

\* mutant: the suffix is not removed
trim_end_none(url) == url

\* str::trim_end_matches(".git"): the suffix is removed as often as it occurs
RECURSIVE trim_end_matches(_)
trim_end_matches(url) ==
    IF url # <<>> /\ url[Len(url)] = ".git"
    THEN trim_end_matches(SubSeq(url, 1, Len(url) - 1))
    ELSE url

\* trim_after_domain: the url up to the first '/' behind "://" (or behind the
\* start when there is no "://"), the whole url when there is none
trim_after_domain(url) ==
    LET skip == IF url # <<>> /\ url[1] \in {"https://", "http://", "ssh://"}
                THEN 1 ELSE 0
        hits == {k \in (skip + 1)..Len(url) : url[k] = "/"}
    IN  IF hits = {} THEN url
        ELSE SubSeq(url, 1, (CHOOSE k \in hits : \A j \in hits : k <= j) - 1)

\* main.rs:189-203
patch_url(repo, id, change_id) ==
    IF contains(repo, "github.com")
    THEN trim_end_matches(repo) \o <<"/commit/", id>>
    ELSE IF contains(repo, "gitlab.com")
    THEN trim_end_matches(repo) \o <<"/-/commit/", id, ".patch">>
    ELSE IF contains(repo, "bitbucket.org")
    THEN trim_end_matches(repo) \o <<"/commits/", id, ".patch">>
    ELSE IF contains(repo, "gerrit") /\ change_id # "none"
    THEN trim_after_domain(trim_end_matches(repo)) \o <<"/r/q/", change_id>>
    ELSE <<id>>

\* main.rs:205-209: an anchor when the derived text starts with "http"
id_link(repo, id, change_id) ==
    LET p == patch_url(repo, id, change_id)
    IN  IF starts_with_http(p)
        THEN [anchor |-> TRUE, href |-> p, text |-> id]
        ELSE [anchor |-> FALSE, href |-> <<>>, text |-> id]

\* ------------------------------------------------------------------- state
VARIABLES
    mirror,        \* url -> [exists, hist]: the local mirror of each repository
    file,          \* state.json in the cache directory
    pc,            \* "done": no run in progress; "repos": main's loop over config.repos
    config,        \* the configuration and arguments of the run
    state,         \* state.last_seen, the in-memory watermark map
    repo_commits,  \* the commit aggregate of the run
    loaded,        \* the map load_state returned when the run started
    log,           \* per attempted repository of the run: what happened
    out,           \* what the run rendered, delivered and saved
    seen,          \* url -> the latest commit a walk ever returned first, or NoId
    past           \* the reports of the finished runs, while every save was kept

vars == <<mirror, file, pc, config, state, repo_commits, loaded, log, out, seen,
          past>>

NoMirror == [exists |-> FALSE, hist |-> <<>>]
NoCommits == [u \in {} |-> <<>>]
\* out: emails and files count the calls of send_email and of fs::write on
\* args.output, diag holds the diagnostics (eprintln!) of main's last part
NoOut    == [rendered |-> FALSE, report |-> [copies |-> 0, sections |-> {}],
             delivery |-> "none",
             delivered |-> FALSE, saves |-> 0, written |-> FALSE,
             emails |-> 0, files |-> 0, diag |-> {}]

RECURSIVE SumLen(_, _)
SumLen(mir, S) ==
    IF S = {} THEN 0
    ELSE LET u == CHOOSE u \in S : TRUE
         IN  Len(mir[u].hist) + SumLen(mir, S \ {u})
\* how many commits the mirror of url may hold within MaxCommits
Room(mir, url) == MaxCommits - SumLen(mir, Urls \ {url})

Configs == [repos : RepoLists, max_commits : Caps]

\* past.rows[u]: the commits of u in the reports of the finished runs;
\* past.unsent[u]: those of the latest report when its delivery failed;
\* past.saved: every run that had commits wrote the state file and the file
\* was not lost since.  Once a save is missing the reports are forgotten.
NoRows   == [u \in Urls |-> {}]
NoPast   == [saved |-> TRUE, rows |-> NoRows, unsent |-> NoRows]
LostPast == [saved |-> FALSE, rows |-> NoRows, unsent |-> NoRows]
RowsOf(report) ==
    [u \in Urls |-> UNION {Range(sec.rows) : sec \in
                              {x \in report.sections : x.repo = u}}]
Reported(p, report, saved, sent) ==
    IF p.saved /\ saved
    THEN [saved |-> TRUE,
          rows |-> [u \in Urls |-> p.rows[u] \cup RowsOf(report)[u]],
          unsent |-> IF sent THEN NoRows ELSE RowsOf(report)]
    ELSE LostPast

Init ==
    /\ mirror = [u \in Urls |-> NoMirror]
    /\ file = MissingFile
    /\ pc = "done"
    /\ config \in Configs
    /\ state = EmptyMap
    /\ repo_commits = NoCommits
    /\ loaded = EmptyMap
    /\ log = <<>>
    /\ out = NoOut
    /\ seen = [u \in Urls |-> NoId]
    /\ past = NoPast

\* ------------------------------------------------------------------- main
\* main.rs:274-309: load the state, empty aggregate (the configuration file
\* and the arguments are the same in every run)
Start ==
    /\ pc \in {"done", "panicked"}
    /\ state' = load_state(file)
    /\ loaded' = load_state(file)
    /\ repo_commits' = NoCommits
    /\ log' = <<>>
    /\ out' = NoOut
    /\ pc' = "repos"
    /\ UNCHANGED <<mirror, file, config, seen, past>>

\* clone_or_update_repo: the outcomes of preparing the mirror of url.
\* An existing mirror is pulled and Ok is returned whether or not the pull
\* succeeded; a missing one is cloned, and a failed clone is the only Err.
clone_or_update_repo(mir, url) ==
    IF mir[url].exists
    THEN {[ok |-> TRUE, how |-> "pull_failed", mirror |-> mir[url]]}
         \cup {[ok |-> TRUE, how |-> "pulled",
                mirror |-> [exists |-> TRUE, hist |-> g]] :
                  g \in Extensions(mir[url].hist, Room(mir, url))}
    ELSE {[ok |-> FALSE, how |-> "clone_failed", mirror |-> mir[url]]}
         \cup {[ok |-> TRUE, how |-> "cloned",
                mirror |-> [exists |-> TRUE, hist |-> g]] :
                  g \in Histories(Room(mir, url))}

\* mutant: the watermark moves to the last commit of the result
StageWatermarkLast(m, url, r) ==
    IF r.ok /\ r.commits # <<>> THEN Insert(m, url, r.commits[Len(r.commits)]) ELSE m

\* mutant: every Ok result stages a watermark, an empty one the value at hand
StageWatermarkAlways(m, url, r) ==
    IF r.ok
    THEN Insert(m, url, IF r.commits # <<>> THEN r.commits[1] ELSE Get(m, url))
    ELSE m

\* main.rs:321-326: a non-empty result moves the watermark to commits[0]
StageWatermark(m, url, r) ==
    IF r.ok /\ r.commits # <<>> THEN Insert(m, url, r.commits[1]) ELSE m

\* mutant: an entry the aggregate already has is kept (entry().or_insert())
StageCommitsKeepFirst(agg, url, r) ==
    IF r.ok /\ r.commits # <<>> /\ url \notin DOMAIN agg
    THEN [w \in (DOMAIN agg) \cup {url} |-> IF w = url THEN r.commits ELSE agg[w]]
    ELSE agg

\* main.rs:321-326: a non-empty result enters (or replaces) the aggregate entry
StageCommits(agg, url, r) ==
    IF r.ok /\ r.commits # <<>>
    THEN [w \in (DOMAIN agg) \cup {url} |-> IF w = url THEN r.commits ELSE agg[w]]
    ELSE agg

\* the diagnostics (stderr) of one iteration: main.rs:94-99 for a failed
\* pull, main.rs:331 for a failed clone, main.rs:328 for a failed walk, and
\* the message of the panic at main.rs:138
RepoDiag(p, r) ==
    (IF p.how = "pull_failed" THEN {"Git pull failed"} ELSE {})
    \cup (IF ~p.ok THEN {"Failed to prepare repo"} ELSE {})
    \cup (IF p.ok /\ ~r.ok /\ ~r.panic THEN {"Failed to read commits"} ELSE {})
    \cup (IF r.panic THEN {"panicked"} ELSE {})

\* main.rs:311-333: one iteration of the loop over config.repos; a panic in
\* the walk ends the process
ProcessRepo ==
    /\ pc = "repos"
    /\ Len(log) < Len(config.repos)
    /\ LET url == config.repos[Len(log) + 1] IN
       \E p \in clone_or_update_repo(mirror, url), readable \in BOOLEAN :
          LET r == IF p.ok
                   THEN get_new_commits_since(p.mirror.hist, readable,
                                              Get(state, url), config.max_commits)
                   ELSE WalkErr
          IN  /\ mirror' = [mirror EXCEPT ![url] = p.mirror]
              /\ state' = StageWatermark(state, url, r)
              /\ repo_commits' = StageCommits(repo_commits, url, r)
              /\ log' = Append(log, [url |-> url, how |-> p.how,
                                     walk |-> IF ~p.ok THEN "none"
                                              ELSE IF r.ok THEN "ok"
                                              ELSE IF r.panic THEN "panic" ELSE "err",
                                     hist |-> p.mirror.hist,
                                     last_seen |-> Get(state, url),
                                     commits |-> r.commits,
                                     diag |-> RepoDiag(p, r)])
              /\ seen' = IF r.commits # <<>> /\ r.commits[1] > seen[url]
                         THEN [seen EXCEPT ![url] = r.commits[1]]
                         ELSE seen
              /\ pc' = IF r.panic THEN "panicked" ELSE "repos"
    /\ UNCHANGED <<file, config, loaded, out, past>>

\* main.rs:339-347: a failed delivery is reported on stderr; save_state
\* (main.rs:65-69) reports nothing, whatever fs::write returned
DeliveryDiag(output, sent) ==
    IF sent THEN {}
    ELSE IF output THEN {"Failed to write report"} ELSE {"Failed to send email"}

\* what main.rs:336-350 leaves behind: the page, `tries` calls of the one
\* delivery function, and save_state called or not
RunOut(template, output, sent, tries, saved, write) ==
    [rendered |-> TRUE,
     report |-> build_html_report(repo_commits, template),
     delivery |-> IF output THEN "file" ELSE "email",
     delivered |-> sent,
     saves |-> out.saves + (IF saved THEN 1 ELSE 0),
     written |-> saved /\ write = "ok",
     emails |-> out.emails + (IF output THEN 0 ELSE tries),
     files |-> out.files + (IF output THEN tries ELSE 0),
     diag |-> DeliveryDiag(output, sent)]

\* mutant: the state is saved whether or not the aggregate is empty
FinishAlwaysSaves ==
    /\ pc = "repos"
    /\ Len(log) >= Len(config.repos)
    /\ \E template \in Templates, output \in BOOLEAN, sent \in BOOLEAN,
          write \in Writes :
          /\ out' = IF DOMAIN repo_commits # {}
                    THEN RunOut(template, output, sent, 1, TRUE, write)
                    ELSE [NoOut EXCEPT !.saves = 1, !.written = (write = "ok")]
          /\ file' = save_state(state, file, write)
          /\ past' = IF DOMAIN repo_commits # {}
                     THEN Reported(past, out'.report, write = "ok", sent) ELSE past
    /\ pc' = "done"
    /\ UNCHANGED <<mirror, config, state, repo_commits, loaded, log, seen>>

\* mutant: the loop is left after the first repository
FinishEarly ==
    /\ pc = "repos"
    /\ Len(log) >= Min(1, Len(config.repos))
    /\ IF DOMAIN repo_commits # {}
       THEN \E template \in Templates, output \in BOOLEAN, sent \in BOOLEAN,
               write \in Writes :
              /\ out' = RunOut(template, output, sent, 1, TRUE, write)
              /\ file' = save_state(state, file, write)
              /\ past' = Reported(past, out'.report, write = "ok", sent)
       ELSE UNCHANGED <<out, file, past>>
    /\ pc' = "done"
    /\ UNCHANGED <<mirror, config, state, repo_commits, loaded, log, seen>>

\* mutant: a delivery that failed is tried a second time
FinishRetries ==
    /\ pc = "repos"
    /\ Len(log) >= Len(config.repos)
    /\ IF DOMAIN repo_commits # {}
       THEN \E template \in Templates, output \in BOOLEAN, sent \in BOOLEAN,
               write \in Writes :
              /\ out' = RunOut(template, output, sent, IF sent THEN 1 ELSE 2,
                               TRUE, write)
              /\ file' = save_state(state, file, write)
              /\ past' = Reported(past, out'.report, write = "ok", sent)
       ELSE UNCHANGED <<out, file, past>>
    /\ pc' = "done"
    /\ UNCHANGED <<mirror, config, state, repo_commits, loaded, log, seen>>

\* main.rs:335-353: render, deliver (to args.output when given, else by
\* email) and save when the aggregate is not empty
Finish ==
    /\ pc = "repos"
    /\ Len(log) >= Len(config.repos)
    /\ IF DOMAIN repo_commits # {}
       THEN \E template \in Templates, output \in BOOLEAN, sent \in BOOLEAN,
               write \in Writes :
              /\ out' = RunOut(template, output, sent, 1, TRUE, write)
              /\ file' = save_state(state, file, write)
              /\ past' = Reported(past, out'.report, write = "ok", sent)
       ELSE UNCHANGED <<out, file, past>>
    /\ pc' = "done"
    /\ UNCHANGED <<mirror, config, state, repo_commits, loaded, log, seen>>

\* between runs the state file may be removed or damaged; the finished
\* process and what it held in memory are gone
LoseStateFile ==
    /\ pc \in {"done", "panicked"}
    /\ file.kind = "json"
    /\ \E k \in {"missing", "corrupt"} :
          file' = [kind |-> k, text |-> <<>>]
    /\ state' = EmptyMap
    /\ repo_commits' = NoCommits
    /\ loaded' = EmptyMap
    /\ log' = <<>>
    /\ out' = NoOut
    /\ past' = LostPast
    /\ pc' = "done"
    /\ UNCHANGED <<mirror, config, seen>>

Next == Start \/ ProcessRepo \/ Finish \/ LoseStateFile

Spec == Init /\ [][Next]_vars


\* ------------------------------------------------- the walker on its own
\* get_new_commits_since applied to any history of repository "A", any
\* last_seen (absent, a commit of the history, or an identifier that is not
\* in the history) and any max_commits
InitWalk ==
    /\ \E h \in Histories(MaxCommits) :
          mirror = [u \in Urls |-> IF u = "A" THEN [exists |-> TRUE, hist |-> h]
                                   ELSE NoMirror]
    /\ state \in {EmptyMap} \cup {[u \in {"A"} |-> x] : x \in 1..(MaxCommits + 1)}
    /\ config \in [repos : {<<"A">>}, max_commits : Caps]
    /\ file = MissingFile
    /\ pc = "walk"
    /\ repo_commits = NoCommits
    /\ loaded = EmptyMap
    /\ log = <<>>
    /\ out = NoOut
    /\ seen = [u \in Urls |-> NoId]
    /\ past = NoPast

WalkCall ==
    /\ pc = "walk"
    /\ \E readable \in BOOLEAN :
          LET r == get_new_commits_since(mirror["A"].hist, readable,
                                         Get(state, "A"), config.max_commits)
          IN  log' = <<[url |-> "A", how |-> "none",
                        walk |-> IF r.ok THEN "ok"
                                 ELSE IF r.panic THEN "panic" ELSE "err",
                        hist |-> mirror["A"].hist,
                        last_seen |-> Get(state, "A"),
                        commits |-> r.commits,
                        diag |-> {}]>>
    /\ pc' = "walked"
    /\ UNCHANGED <<mirror, file, config, state, repo_commits, loaded, out, seen, past>>

SpecWalk == InitWalk /\ [][WalkCall]_vars

\* ------------------------------------------- the watermark store on its own
Maps == UNION {[S -> Ids] : S \in SUBSET Urls}

InitStore ==
    /\ mirror = [u \in Urls |-> NoMirror]
    /\ state \in Maps
    /\ file = MissingFile
    /\ pc = "store"
    /\ config = [repos |-> <<>>, max_commits |-> NoCap]
    /\ repo_commits = NoCommits
    /\ loaded = EmptyMap
    /\ log = <<>>
    /\ out = NoOut
    /\ seen = [u \in Urls |-> NoId]
    /\ past = NoPast

\* save_state(&state, &state_file)
StoreSave ==
    /\ pc \in {"store", "loaded", "reloaded"}
    /\ \E write \in Writes :
          /\ file' = save_state(state, file, write)
          /\ out' = [NoOut EXCEPT !.saves = 1, !.written = (write = "ok")]
    /\ pc' = "saved"
    /\ UNCHANGED <<mirror, config, state, repo_commits, loaded, log, seen, past>>

\* load_state(&state_file); "reloaded" when it follows a save_state directly
StoreLoad ==
    /\ pc \in {"store", "saved"}
    /\ loaded' = load_state(file)
    /\ pc' = IF pc = "saved" THEN "reloaded" ELSE "loaded"
    /\ UNCHANGED <<mirror, file, config, state, repo_commits, log, out, seen, past>>

\* the file is removed, made unreadable or overwritten with something else
StoreDamage ==
    /\ pc \in {"saved", "loaded", "reloaded"}
    /\ \E k \in {"missing", "unreadable", "corrupt"} :
          file' = [kind |-> k, text |-> <<>>]
    /\ out' = NoOut
    /\ pc' = "store"
    /\ UNCHANGED <<mirror, config, state, repo_commits, loaded, log, seen, past>>

\* the map in memory becomes another one
StoreEdit ==
    /\ pc \in {"loaded", "reloaded"}
    /\ \E m \in Maps : m # state /\ state' = m
    /\ out' = NoOut
    /\ pc' = "store"
    /\ UNCHANGED <<mirror, file, config, repo_commits, loaded, log, seen, past>>

NextStore == StoreSave \/ StoreLoad \/ StoreDamage \/ StoreEdit

SpecStore == InitStore /\ [][NextStore]_vars


\* --------------------------------------------- link derivation on its own
InitLink ==
    /\ mirror = [u \in Urls |-> NoMirror]
    /\ state = EmptyMap
    /\ file = MissingFile
    /\ pc = "link"
    /\ config = [repos |-> <<>>, max_commits |-> NoCap]
    /\ repo_commits = NoCommits
    /\ loaded = EmptyMap
    /\ log = <<>>
    /\ out = NoOut
    /\ seen = [u \in Urls |-> NoId]
    /\ past = NoPast

\* one table row of build_html_report_with_template (main.rs:188-209); the
\* identifier is text (commit.id().to_string(), main.rs:130)
LinkCall ==
    /\ pc = "link"
    /\ \E repo \in RepoUrls, id \in Ids, change_id \in ChangeIds :
          log' = <<[repo |-> repo, id |-> ToString(id), change_id |-> change_id,
                    id_link |-> id_link(repo, ToString(id), change_id)]>>
    /\ pc' = "linked"
    /\ UNCHANGED <<mirror, file, config, state, repo_commits, loaded, out, seen, past>>

SpecLink == InitLink /\ [][LinkCall]_vars


\* ================================================================== claims
ReportRepos == {sec.repo : sec \in out.report.sections}
\* the attempts of the run on url u
Attempts(u) == {k \in DOMAIN log : log[k].url = u}

\* C1 (as stated; SpecWalk): called with last_seen = X, the walker returns
\* neither X nor, when X is a commit of the history, any ancestor of X, for
\* every max_commits.
C1_ExcludesWatermarkAndAncestors ==
    pc = "walked" =>
        LET e == log[1] IN
        e.last_seen # NoId =>
            \A k \in DOMAIN e.commits :
                /\ e.commits[k] # e.last_seen
                /\ e.last_seen \in DOMAIN e.hist
                       => ~IsAncestor(e.commits[k], e.last_seen)

\* C2 (as stated; SpecWalk): with last_seen = None the walker returns the
\* min(max_commits, length) newest commits starting at HEAD (the whole
\* history, HEAD first, when max_commits is None), and for any last_seen it
\* returns at most max_commits commits.
C2_NewestFromHead ==
    pc = "walked" /\ log[1].walk = "ok" =>
        LET e    == log[1]
            n    == Len(e.hist)
            want == IF config.max_commits = NoCap THEN n
                    ELSE Min(config.max_commits, n)
        IN  /\ e.last_seen = NoId => e.commits = [k \in 1..want |-> n + 1 - k]
            /\ config.max_commits # NoCap => Len(e.commits) <= config.max_commits


\* C3 (Spec): the watermark of a url only advances.  Whenever a run replaces
\* the watermark of a url, in memory or in the state file, by another commit,
\* the new commit is a descendant of the replaced one and is not older than
\* any commit ever staged for the url.
C3_WatermarkOnlyAdvances ==
    [][/\ (pc = "repos" /\ state' # state) =>
            \A u \in Urls :
                Get(state', u) # Get(state, u) =>
                    /\ Get(state', u) # NoId
                    /\ Get(state, u) # NoId => IsAncestor(Get(state, u), Get(state', u))
                    /\ Get(state', u) >= seen[u]
       /\ (pc = "repos" /\ file' # file) =>
            LET before == load_state(file)
                after  == load_state(file')
            IN  \A u \in Urls :
                    LET old == Get(before, u)
                        new == Get(after, u)
                    IN  (new # old /\ new # NoId) =>
                            /\ old # NoId => IsAncestor(old, new)
                            /\ new >= seen[u]
      ]_vars

\* C3 witness: a run has replaced an existing watermark and saved the map
C3_Witness ==
    /\ pc = "done"
    /\ out.written
    /\ \E k \in DOMAIN log : log[k].last_seen # NoId /\ log[k].commits # <<>>

\* C4 (as stated; Spec): after a run in which a repository yielded new
\* commits its watermark is element 0 of the walker's result, and that is
\* the HEAD of its mirror.
C4_WatermarkIsHead ==
    pc = "done" =>
        \A u \in DOMAIN repo_commits :
            /\ Get(state, u) = repo_commits[u][1]
            /\ Get(state, u) = Len(mirror[u].hist)

\* C5 (as stated; Spec): a repository none of whose walks in the run
\* yielded a commit is in no section of the report, and its watermark is, in
\* memory and in the state file, what the run loaded.
C5_NoCommitsNoEffect ==
    \A u \in Urls :
        (\A k \in Attempts(u) : log[k].commits = <<>>) =>
            /\ u \notin ReportRepos
            /\ (u \in DOMAIN state) = (u \in DOMAIN loaded)
            /\ Get(state, u) = Get(loaded, u)
            /\ (u \in DOMAIN load_state(file)) = (u \in DOMAIN loaded)
            /\ Get(load_state(file), u) = Get(loaded, u)

\* C6 (as stated; Spec): a repository every update of whose mirror failed in
\* the run is in no section of the report, and its watermark is what the run
\* loaded.
C6_FailedUpdateSkipsRepository ==
    pc = "done" =>
        \A u \in Urls :
            (Attempts(u) # {} /\ \A k \in Attempts(u) : log[k].how = "pull_failed") =>
                /\ u \notin ReportRepos
                /\ Get(state, u) = Get(loaded, u)

\* C6 (amended; Spec): an attempt whose clone fails, or whose pull fails
\* while the watermark of the repository is the first commit the walker
\* finds in the stale mirror, adds nothing to the aggregate and leaves the
\* watermark map as it was.
C6_FailedUpdateOfCurrentMirror ==
    [][(pc = "repos" /\ Len(log') = Len(log) + 1) =>
         LET e == log'[Len(log')] IN
         (\/ e.how = "clone_failed"
          \/ /\ e.how = "pull_failed"
             /\ e.hist # <<>>
             /\ e.last_seen = Head(Revwalk(e.hist)))
            => (state' = state /\ repo_commits' = repo_commits)
      ]_vars

\* C6 witness: a run that reports another repository has pulled a mirror in
\* vain while the watermark was the mirror's first commit
C6_Witness ==
    /\ pc = "done"
    /\ out.rendered
    /\ \E k \in DOMAIN log :
          /\ log[k].how = "pull_failed"
          /\ log[k].hist # <<>>
          /\ log[k].walk = "ok"
          /\ log[k].last_seen = Head(Revwalk(log[k].hist))

\* C7 (Spec): a run calls save_state at most once, only when every
\* configured repository has been attempted, and only when the map in
\* memory differs from the map the run loaded.
C7_SaveOnceAfterAllIfChanged ==
    /\ out.saves <= 1
    /\ out.saves >= 1 => (Len(log) = Len(config.repos) /\ state # loaded)

\* C7 witness: a run over two repositories has called save_state
C7_Witness ==
    pc = "done" /\ out.saves = 1 /\ Len(log) = 2

\* C8 (Spec): a run that ends with an empty aggregate renders nothing,
\* delivers nothing, does not call save_state and leaves the state file as
\* it is.
C8_EmptyAggregateTouchesNothing ==
    [][(pc = "repos" /\ pc' = "done" /\ DOMAIN repo_commits = {}) =>
         (out' = NoOut /\ out = NoOut /\ file' = file)
      ]_vars

\* C8 witness: a run that walked a repository ended with an empty aggregate
\* beside a state file that holds a map
C8_Witness ==
    /\ pc = "done"
    /\ DOMAIN repo_commits = {}
    /\ \E k \in DOMAIN log : log[k].walk = "ok"
    /\ file.kind = "json"

\* C9 (Spec): a url is a key of the watermark map, in memory or in the state
\* file, only if a walk of this or an earlier run returned a commit for it.
C9_KeysWereObserved ==
    \A u \in (DOMAIN state) \cup (DOMAIN load_state(file)) : seen[u] # NoId

\* C9 witness: after a run, one configured repository is a key of the saved
\* map and another, which was attempted, is not
C9_Witness ==
    /\ pc = "done"
    /\ out.written
    /\ \E u, v \in Urls :
          /\ u \in DOMAIN load_state(file)
          /\ v \notin DOMAIN load_state(file)
          /\ Attempts(v) # {}

\* C10 (SpecStore): load_state after a save_state that wrote the file returns
\* the saved map, and load_state of a file that is missing, unreadable or
\* not parseable returns the empty map.
C10_SaveLoadRoundTrip ==
    /\ (pc = "reloaded" /\ out.written) => loaded = state
    /\ (pc \in {"loaded", "reloaded"} /\ file.kind # "json") => loaded = EmptyMap

\* C10 witness: a map of two entries was saved and loaded again
C10_Witness ==
    pc = "reloaded" /\ out.written /\ DOMAIN state = Urls /\ file.kind = "json"

\* C11 (as stated; SpecLink): the identifier of a commit of a URL that ends
\* in ".git" is an anchor to the URL without that ".git" followed by
\* /commit/<id> for a GitHub URL, /-/commit/<id>.patch for a GitLab URL and
\* /commits/<id>.patch for a Bitbucket URL (the first host that matches, in
\* this order); with none of the three hosts and no change token it is the
\* bare identifier.
C11_HostKeyedLink ==
    pc = "linked" =>
        LET e    == log[1]
            n    == Len(e.repo)
            base == SubSeq(e.repo, 1, n - 1)
            link(tail) == [anchor |-> TRUE, href |-> base \o tail, text |-> e.id]
        IN  /\ e.repo[n] = ".git" =>
                IF contains(e.repo, "github.com")
                THEN e.id_link = link(<<"/commit/", e.id>>)
                ELSE IF contains(e.repo, "gitlab.com")
                THEN e.id_link = link(<<"/-/commit/", e.id, ".patch">>)
                ELSE contains(e.repo, "bitbucket.org")
                        => e.id_link = link(<<"/commits/", e.id, ".patch">>)
            /\ (/\ ~contains(e.repo, "github.com")
                /\ ~contains(e.repo, "gitlab.com")
                /\ ~contains(e.repo, "bitbucket.org")
                /\ e.change_id = "none")
                  => e.id_link = [anchor |-> FALSE, href |-> <<>>, text |-> e.id]

\* C11 (amended; SpecLink): for a URL that starts with "http" the identifier
\* is an anchor to the URL with every trailing ".git" removed followed by
\* /commit/<id> (GitHub), /-/commit/<id>.patch (GitLab) or
\* /commits/<id>.patch (Bitbucket), the first host that matches in this
\* order; a URL that does not start with "http", and a URL with none of the
\* three hosts and no change token, renders the bare identifier.
C11_HttpHostKeyedLink ==
    pc = "linked" =>
        LET e    == log[1]
            base == SelectSeq(e.repo, LAMBDA t : t # ".git")
            link(tail) == [anchor |-> TRUE, href |-> base \o tail, text |-> e.id]
            bare == [anchor |-> FALSE, href |-> <<>>, text |-> e.id]
        IN  /\ starts_with_http(e.repo) =>
                IF contains(e.repo, "github.com")
                THEN e.id_link = link(<<"/commit/", e.id>>)
                ELSE IF contains(e.repo, "gitlab.com")
                THEN e.id_link = link(<<"/-/commit/", e.id, ".patch">>)
                ELSE contains(e.repo, "bitbucket.org")
                        => e.id_link = link(<<"/commits/", e.id, ".patch">>)
            /\ ~starts_with_http(e.repo) => e.id_link = bare
            /\ (/\ ~contains(e.repo, "github.com")
                /\ ~contains(e.repo, "gitlab.com")
                /\ ~contains(e.repo, "bitbucket.org")
                /\ e.change_id = "none")
                  => e.id_link = bare

\* C11 witness: a GitLab URL that names github.com in its path and ends in
\* ".git" was linked the GitHub way
C11_Witness ==
    /\ pc = "linked"
    /\ log[1].repo[1] = "https://"
    /\ log[1].repo[2] = "gitlab.com"
    /\ log[1].repo[4] = "github.com"
    /\ log[1].repo[Len(log[1].repo)] = ".git"
    /\ log[1].id_link.anchor

\* C12 (as stated; Spec): a run whose aggregate is not empty calls
\* save_state once whether or not the delivery succeeded, a write that
\* succeeds leaves the staged map in the state file, and, the saves being
\* kept, no commit of a report whose delivery failed is in the next report.
C12_SavedAlsoWhenDeliveryFails ==
    [][(pc = "repos" /\ pc' = "done" /\ DOMAIN repo_commits # {}) =>
         /\ out'.saves = 1
         /\ out'.written =>
               /\ load_state(file') = state
               /\ \A u \in DOMAIN repo_commits :
                     Get(load_state(file'), u) = repo_commits[u][1]
         /\ past.saved =>
               \A sec \in out'.report.sections :
                   Range(sec.rows) \cap past.unsent[sec.repo] = {}
      ]_vars

\* C13 (as stated; Spec): an attempt whose clone fails or whose walk fails
\* (an error, or the panic) changes neither the watermark map nor the
\* aggregate; any attempt leaves the watermark and the aggregate entry of
\* every other repository alone; and no failure ends the run: the loop is
\* left only for the rendering, after every configured repository has been
\* attempted, in configuration order.
C13_FailuresAreIsolated ==
    [][/\ (pc = "repos" /\ Len(log') = Len(log) + 1) =>
            LET e == log'[Len(log')] IN
            /\ e.url = config.repos[Len(log')]
            /\ (e.how = "clone_failed" \/ e.walk \in {"err", "panic"}) =>
                   (state' = state /\ repo_commits' = repo_commits)
            /\ \A v \in Urls \ {e.url} :
                   /\ (v \in DOMAIN state') = (v \in DOMAIN state)
                   /\ Get(state', v) = Get(state, v)
                   /\ (v \in DOMAIN repo_commits') = (v \in DOMAIN repo_commits)
                   /\ v \in DOMAIN repo_commits => repo_commits'[v] = repo_commits[v]
       /\ (pc = "repos" /\ pc' # "repos") =>
            /\ pc' = "done"
            /\ Len(log) = Len(config.repos)
            /\ \A k \in DOMAIN log : log[k].url = config.repos[k]
      ]_vars

\* C14 (Spec): a run calls send_email and fs::write on the output file at
\* most once together: send_email once iff the aggregate is not empty and no
\* output file is given, fs::write once iff the aggregate is not empty and an
\* output file is given, and a failed delivery is not repeated.
C14_AtMostOneDelivery ==
    pc = "done" =>
        /\ out.emails + out.files <= 1
        /\ out.emails = 1 <=> (DOMAIN repo_commits # {} /\ out.delivery = "email")
        /\ out.files = 1 <=> (DOMAIN repo_commits # {} /\ out.delivery = "file")
        /\ DOMAIN repo_commits = {} => out.delivery = "none"

\* C14 witness: the one email of a run was not delivered
C14_Witness ==
    pc = "done" /\ out.emails = 1 /\ out.files = 0 /\ ~out.delivered

\* C15 (as stated; Spec): every failed pull, failed clone, failed walk,
\* failed delivery and failed write of the state file leaves a diagnostic
\* line, and an attempt or a run without any of these leaves none.
C15_EveryErrorIsReported ==
    /\ \A k \in DOMAIN log :
          (\/ log[k].how \in {"pull_failed", "clone_failed"}
           \/ log[k].walk \in {"err", "panic"})
              <=> log[k].diag # {}
    /\ pc = "done" =>
          /\ (out.rendered /\ ~out.delivered) =>
                 out.diag \cap {"Failed to write report", "Failed to send email"} # {}
          /\ (out.saves > 0 /\ ~out.written) =>
                 out.diag \ {"Failed to write report", "Failed to send email"} # {}
          /\ (out.delivered /\ out.written) => out.diag = {}

\* C16 (as stated; SpecWalk): in the result of the walker the commit at a
\* later position is an ancestor of the commit at every earlier position,
\* and no commit appears twice.
C16_StrictlyNewestFirst ==
    pc = "walked" =>
        LET c == log[1].commits IN
        \A i, j \in DOMAIN c : i < j => (IsAncestor(c[j], c[i]) /\ c[i] # c[j])

\* C17 (Spec): when the loop over config.repos has finished, a url is a key
\* of the aggregate iff its watermark in memory differs from the one the run
\* loaded, and then the watermark is element 0 of the aggregate's list of
\* the url; also when config.repos names a url twice.
C17_AggregateKeyIffWatermarkMoved ==
    (pc \in {"repos", "done"} /\ Len(log) = Len(config.repos)) =>
        \A u \in Urls :
            /\ (u \in DOMAIN repo_commits) <=> (Get(state, u) # Get(loaded, u))
            /\ u \in DOMAIN repo_commits => Get(state, u) = repo_commits[u][1]

\* C17 witness: both attempts of a run on the same url returned commits, the
\* first of them from a watermark the run had loaded
C17_Witness ==
    /\ pc = "done"
    /\ Len(log) = 2
    /\ log[1].url = log[2].url
    /\ log[1].last_seen # NoId
    /\ log[1].commits # <<>> /\ log[2].commits # <<>>
    /\ Get(state, log[1].url) = log[2].commits[1]

\* C18 (as stated; Spec): whenever a run changes the stored watermark of a
\* url from a previous value X to Y, every commit of the mirror's history
\* that is newer than X and not newer than Y is a row of the url's section
\* of the run's report.
C18_NoCommitSkipped ==
    [][(pc = "repos" /\ pc' = "done") =>
         \A u \in Urls :
            LET X == Get(load_state(file), u)
                Y == Get(load_state(file'), u)
            IN  (X # NoId /\ Y # X /\ Y # NoId) =>
                    \A c \in DOMAIN mirror[u].hist :
                        (c > X /\ c <= Y) =>
                            \E sec \in out'.report.sections : sec.repo = u /\ c \in Range(sec.rows)
      ]_vars

\* C19 (as stated; Spec): while every run that had commits has written the
\* state file and the file has not been lost, and mirrors only grow, no
\* commit of the report of a run was in the report of an earlier run.
C19_NoCommitReportedTwice ==
    [][(pc = "repos" /\ pc' = "done" /\ past.saved) =>
         \A sec \in out'.report.sections :
             Range(sec.rows) \cap past.rows[sec.repo] = {}
      ]_vars

=============================================================================
